---- MODULE Spec2Model ----
(***************************************************************************)
(* Verification model of the orchestration engine:                         *)
(*   - ExecutorAgentV2 (agents/executor_v2.py): dependency-aware wave      *)
(*     scheduler and thread-pool runner;                                   *)
(*   - call_llm (core/llm.py): retrying inference call;                    *)
(*   - AgentRunner.run (core/agent_runner.py): plan/execute/review loop.   *)
(* Each part has its own specification (Spec, SpecLLM, SpecRun) over one   *)
(* variable tuple; the variables of the other parts stay at their idle     *)
(* values.                                                                 *)
(***************************************************************************)
EXTENDS Integers, Sequences, FiniteSets, TLC

\* ------------------------------------------------------------------------
\* Bounds of the model
\* ------------------------------------------------------------------------
MaxSteps == 3
MaxDeps == 1
MaxAttempts == 4
MaxIter == 3
MaxLen == 6
MaxWave == 5

\* ------------------------------------------------------------------------
\* Program constants
\* ------------------------------------------------------------------------
MAX_WORKERS == 4

VARIABLES
    \* --- ExecutorAgentV2 ---
    dag,             \* _build_dag: step_number -> set of dependencies
    pc,              \* position of the thread that called execute()
    completed,       \* local set of _execute_with_dependencies
    failed,          \* local set of _execute_with_dependencies
    remaining,       \* local set of _execute_with_dependencies
    wave,            \* ready set handed to _execute_parallel
    fut,             \* state of each step's future in the thread pool
    collected,       \* futures of the wave already yielded by as_completed
    steps_executed,  \* self.steps_executed: step_number -> recorded status
    dispatchCount,   \* how many times each step was submitted to the pool
    waves,           \* number of waves dispatched so far
    diag,            \* step ids named by the "Deadlock detected" log line
    exc,             \* exception propagating out of execute()
    response,        \* ExecutorResponse returned by execute()
    toolLog,         \* what _call_tool did for each step
    \* --- call_llm ---
    tenacity,        \* TENACITY_AVAILABLE
    max_retries,     \* argument max_retries
    return_json,     \* argument return_json
    lpc,             \* position inside call_llm
    attempt,         \* attempts started so far
    callLog,         \* outcome of every backend call, in order
    sleeps,          \* backoff waits slept, in order
    lresult,         \* what call_llm returned or raised
    \* --- AgentRunner.run ---
    MAX_RETRIES,             \* core.config.MAX_RETRIES
    ENABLE_REFINEMENT_LOOP,  \* core.config.ENABLE_REFINEMENT_LOOP
    AUTO_COMMIT,             \* core.config.AUTO_COMMIT
    rpc,             \* position inside run()
    rattempt,        \* loop variable "attempt"
    plan,            \* context.plan of the current iteration
    execResult,      \* execution_result of the current iteration
    context,         \* ExecutionContext counters
    calls,           \* invocations of the collaborators
    verdictLog,      \* status of every review returned, in order
    excCount,        \* exceptions caught at the loop boundary
    runResult,       \* dictionary returned by run()
    replyLog,        \* status string of every reviewer reply, in order
    plannerArgs,     \* what every call of planner.plan was given, in order
    loopReason,      \* why the loop went on to the current iteration
    \* --- extract_json ---
    text,            \* argument text, as a sequence of tokens
    jpc,             \* position inside extract_json
    jresult,         \* what extract_json returned or raised
    \* --- run(goal) and ExecutorAgent.execute ---
    active,          \* the invocations of run(goal) in progress
    runner,          \* module global _runner: 0 for None, else the instance
    inst,            \* the AgentRunner each invocation runs on
    plan_steps,      \* plan.steps handed to executor.execute
    vpc,             \* position of each invocation
    idx,             \* position of "for step in plan_steps" per invocation
    step_response,   \* local step_response of each invocation
    executor_steps_executed,  \* executor.steps_executed of each AgentRunner
    own,             \* step responses each invocation produced, in order
    executor_response         \* ExecutorResponse returned to each invocation

execVars == <<dag, pc, completed, failed, remaining, wave, fut, collected,
              steps_executed, dispatchCount, waves, diag, exc,
                   response, toolLog>>
llmVars == <<tenacity, max_retries, return_json, lpc, attempt, callLog,
             sleeps, lresult>>
runVars == <<MAX_RETRIES, ENABLE_REFINEMENT_LOOP, AUTO_COMMIT, rpc, rattempt,
             plan, execResult, context, calls, verdictLog, excCount,
             runResult, replyLog, plannerArgs, loopReason>>
jsonVars == <<text, jpc, jresult>>
v1Vars == <<active, runner, inst, plan_steps, vpc, idx, step_response,
            executor_steps_executed, own, executor_response>>
vars == <<execVars, llmVars, runVars, jsonVars, v1Vars>>

\* ========================================================================
\* ExecutorAgentV2
\* ========================================================================

Ids == DOMAIN dag

DepSets(n) == {D \in SUBSET (1..(n + 1)) : Cardinality(D) <= MaxDeps}

\* plans of 0..MaxSteps steps numbered 1..n; the id n+1 is a dependency on a
\* step that is not in the plan
Plans == UNION {[1..n -> DepSets(n)] : n \in 0..MaxSteps}

NoToolCall == "None"

\* ExecutorStepResponse.tool_call is a required, non-Optional ToolCall field:
\* pydantic rejects tool_call=None with a ValidationError
ValidStepResponse(tool_call) == tool_call # NoToolCall

\* ToolType
ToolTypes == {"filesystem", "terminal", "git", "web", "memory"}

\* the tool/action pairs _call_tool dispatches on
Registry ==
    {<<"filesystem", "read_file">>, <<"filesystem", "write_file">>,
     <<"filesystem", "list_dir">>, <<"terminal", "run_command">>,
     <<"git", "status">>, <<"git", "commit">>, <<"git", "diff">>,
     <<"web", "fetch_url">>, <<"memory", "save_embedding">>,
     <<"memory", "search_similar">>}

\* tool/action pairs a plan step can carry: the registered ones and some that
\* _call_tool has no branch for (PlanStep.action is a free string)
StepCalls ==
    Registry \cup {<<"git", "push">>, <<"web", "scrape">>,
                   <<"terminal", "read_file">>, <<"filesystem", "write">>}

NotCalled == [called |-> FALSE, registered |-> FALSE, invoked |-> FALSE,
              error |-> "none"]

\* _call_tool: a registered pair invokes its tool function, which returns or
\* raises; any other pair reaches "raise ValueError(Unknown action)"
CallTool(call, toolOK) ==
    IF call \in Registry
    THEN [called |-> TRUE, registered |-> TRUE, invoked |-> TRUE,
          error |-> IF toolOK THEN "none" ELSE "ToolError"]
    ELSE [called |-> TRUE, registered |-> FALSE, invoked |-> FALSE,
          error |-> "ValueError: Unknown action"]

\* _execute_step: the outcome stored in the step's future
ExecuteStepOutcome(toolOK) ==
    IF toolOK THEN "success"
    ELSE IF ValidStepResponse(NoToolCall) THEN "failed"
    ELSE "raised"

\* variant of Ready: steps that are not in remaining any more are ready again
ReadyAgainMut(rem, comp, fl) == {s \in Ids : dag[s] \subseteq comp /\ s \notin fl}

\* variant of Ready: a step counts as ready when no dependency has failed
ReadyMut(rem, comp, fl) == {s \in rem : dag[s] \cap fl = {} /\ s \notin fl}

Ready(rem, comp, fl) == {s \in rem : dag[s] \subseteq comp /\ s \notin fl}

CascadeStep(st, s) ==
    IF \E dep \in dag[s] : dep \in st.failed
    THEN [failed |-> st.failed \cup {s}, remaining |-> st.remaining \ {s}]
    ELSE st

RECURSIVE CascadePass(_, _)
CascadePass(order, st) ==
    IF order = <<>> THEN st
    ELSE CascadePass(Tail(order), CascadeStep(st, Head(order)))

\* the orders in which "for step_num in list(remaining)" may visit a set
Orders(S) ==
    {o \in [1..Cardinality(S) -> S] : \A i, j \in DOMAIN o : i # j => o[i] # o[j]}

SetMin(S) == CHOOSE x \in S : \A y \in S : x <= y

NoResponse == [returned |-> FALSE, overall_success |-> FALSE,
               steps_completed |-> {}, stopped_at_step |-> 0]

BuildResponse(fl, se) ==
    [returned |-> TRUE,
     overall_success |-> (fl = {}),
     steps_completed |-> {s \in DOMAIN se : se[s] # "absent"},
     stopped_at_step |-> IF fl = {} THEN 0 ELSE SetMin(fl)]

\* variant of BreakOnNoReady: the loop never breaks on an empty ready set
BreakOnNoReadyMut(ready) == FALSE

\* "if not ready: break"
BreakOnNoReady(ready) == ready = {}

ExecInit ==
    /\ dag \in Plans
    /\ pc = "idle"
    /\ completed = {}
    /\ failed = {}
    /\ remaining = {}
    /\ wave = {}
    /\ fut = [s \in DOMAIN dag |-> "none"]
    /\ collected = {}
    /\ steps_executed = [s \in DOMAIN dag |-> "absent"]
    /\ dispatchCount = [s \in DOMAIN dag |-> 0]
    /\ waves = 0
    /\ diag = {}
    /\ exc = "none"
    /\ response = NoResponse
    /\ toolLog = [s \in DOMAIN dag |-> NotCalled]

\* plans of independent steps, more of them than the pool has threads
WidePlans == {[s \in 1..n |-> {}] : n \in (MAX_WORKERS + 1)..MaxWave}

PoolInit ==
    /\ dag \in Plans \cup WidePlans
    /\ pc = "idle"
    /\ completed = {}
    /\ failed = {}
    /\ remaining = {}
    /\ wave = {}
    /\ fut = [s \in DOMAIN dag |-> "none"]
    /\ collected = {}
    /\ steps_executed = [s \in DOMAIN dag |-> "absent"]
    /\ dispatchCount = [s \in DOMAIN dag |-> 0]
    /\ waves = 0
    /\ diag = {}
    /\ exc = "none"
    /\ response = NoResponse
    /\ toolLog = [s \in DOMAIN dag |-> NotCalled]

ExecIdle ==
    /\ dag = <<>>
    /\ pc = "off"
    /\ completed = {}
    /\ failed = {}
    /\ remaining = {}
    /\ wave = {}
    /\ fut = <<>>
    /\ collected = {}
    /\ steps_executed = <<>>
    /\ dispatchCount = <<>>
    /\ waves = 0
    /\ diag = {}
    /\ exc = "none"
    /\ response = NoResponse
    /\ toolLog = [s \in DOMAIN dag |-> NotCalled]

\* execute(): reset steps_executed, build the DAG, enter the scheduling loop
Execute ==
    /\ pc = "idle"
    /\ pc' = "while"
    /\ steps_executed' = [s \in Ids |-> "absent"]
    /\ completed' = {}
    /\ failed' = {}
    /\ remaining' = Ids
    /\ UNCHANGED <<dag, wave, fut, collected, dispatchCount, waves, diag, exc,
                   response, toolLog>>
    /\ UNCHANGED <<llmVars, runVars, jsonVars, v1Vars>>

\* "while remaining" is false: return the response
WhileExit ==
    /\ pc = "while"
    /\ remaining = {}
    /\ pc' = "done"
    /\ response' = BuildResponse(failed, steps_executed)
    /\ UNCHANGED <<dag, completed, failed, remaining, wave, fut, collected,
                   steps_executed, dispatchCount, waves, diag, exc,
                   toolLog>>
    /\ UNCHANGED <<llmVars, runVars, jsonVars, v1Vars>>

\* one pass of the loop that finds no ready step: cascade, log, break
DeadlockBreak ==
    /\ pc = "while"
    /\ remaining # {}
    /\ \E order \in Orders(remaining) :
         LET ready == Ready(remaining, completed, failed)
             st == CascadePass(order, [failed |-> failed, remaining |-> remaining])
         IN /\ BreakOnNoReady(ready)
            /\ failed' = st.failed
            /\ remaining' = st.remaining
            /\ diag' = st.remaining
            /\ response' = BuildResponse(st.failed, steps_executed)
    /\ pc' = "done"
    /\ UNCHANGED <<dag, completed, wave, fut, collected, steps_executed,
                   dispatchCount, waves, exc, toolLog>>
    /\ UNCHANGED <<llmVars, runVars, jsonVars, v1Vars>>

\* one pass of the loop that finds ready steps: cascade, then submit the wave
Dispatch ==
    /\ pc = "while"
    /\ remaining # {}
    /\ \E order \in Orders(remaining) :
         LET ready == Ready(remaining, completed, failed)
             st == CascadePass(order, [failed |-> failed, remaining |-> remaining])
         IN /\ ~BreakOnNoReady(ready)
            /\ failed' = st.failed
            /\ remaining' = st.remaining
            /\ wave' = ready
            /\ fut' = [s \in Ids |-> IF s \in ready THEN "pending" ELSE fut[s]]
            /\ dispatchCount' = [s \in Ids |->
                   IF s \in ready THEN dispatchCount[s] + 1 ELSE dispatchCount[s]]
    /\ collected' = {}
    /\ waves' = waves + 1
    /\ pc' = "wave"
    /\ UNCHANGED <<dag, completed, steps_executed, diag, exc,
                   response, toolLog>>
    /\ UNCHANGED <<llmVars, runVars, jsonVars, v1Vars>>

Running == {s \in Ids : fut[s] = "running"}

\* variant of HasFreeWorker: a pool without a limit
HasFreeWorkerAlwaysMut(n) == TRUE

\* variant of HasFreeWorker: a pool of one thread
HasFreeWorkerMut(n) == n = 0

\* ThreadPoolExecutor(max_workers=self.MAX_WORKERS): a submitted step starts
\* when fewer than MAX_WORKERS steps are running
HasFreeWorker(n) == n < MAX_WORKERS

\* a pool worker picks up a submitted step
WorkerStart(s) ==
    /\ fut[s] = "pending"
    /\ HasFreeWorker(Cardinality(Running))
    /\ fut' = [fut EXCEPT ![s] = "running"]
    /\ UNCHANGED <<dag, pc, completed, failed, remaining, wave, collected,
                   steps_executed, dispatchCount, waves, diag, exc,
                   response, toolLog>>
    /\ UNCHANGED <<llmVars, runVars, jsonVars, v1Vars>>

\* _execute_step runs to its end in the worker: the tool returns or raises
WorkerFinish(s) ==
    /\ fut[s] = "running"
    /\ \E r \in {CallTool(call, toolOK) : call \in StepCalls, toolOK \in BOOLEAN} :
         /\ toolLog' = [toolLog EXCEPT ![s] = r]
         /\ fut' = [fut EXCEPT ![s] = ExecuteStepOutcome(r.error = "none")]
    /\ UNCHANGED <<dag, pc, completed, failed, remaining, wave, collected,
                   steps_executed, dispatchCount, waves, diag, exc, response>>
    /\ UNCHANGED <<llmVars, runVars, jsonVars, v1Vars>>

\* as_completed yields a future whose _execute_step returned a response
CollectResult(s) ==
    /\ pc = "wave"
    /\ s \in wave \ collected
    /\ fut[s] \in {"success", "failed"}
    /\ steps_executed' = [steps_executed EXCEPT ![s] =
                              IF fut[s] = "success" THEN "SUCCESS" ELSE "FAILED"]
    /\ IF fut[s] = "success"
       THEN completed' = completed \cup {s} /\ failed' = failed
       ELSE failed' = failed \cup {s} /\ completed' = completed
    /\ collected' = collected \cup {s}
    /\ UNCHANGED <<dag, pc, remaining, wave, fut, dispatchCount, waves, diag,
                   exc,
                   response, toolLog>>
    /\ UNCHANGED <<llmVars, runVars, jsonVars, v1Vars>>

\* as_completed yields a future whose _execute_step raised: the handler adds
\* the step to failed and builds ExecutorStepResponse(tool_call=None)
CollectException(s) ==
    /\ pc = "wave"
    /\ s \in wave \ collected
    /\ fut[s] = "raised"
    /\ failed' = failed \cup {s}
    /\ collected' = collected \cup {s}
    /\ IF ValidStepResponse(NoToolCall)
       THEN /\ steps_executed' = [steps_executed EXCEPT ![s] = "FAILED"]
            /\ UNCHANGED <<pc, exc>>
       ELSE /\ pc' = "exit_pool"
            /\ exc' = "ValidationError"
            /\ UNCHANGED steps_executed
    /\ UNCHANGED <<dag, completed, remaining, wave, fut, dispatchCount, waves,
                   diag,
                   response, toolLog>>
    /\ UNCHANGED <<llmVars, runVars, jsonVars, v1Vars>>

\* as_completed(timeout=STEP_TIMEOUT) raises while a future is still not done
Timeout ==
    /\ pc = "wave"
    /\ \E s \in wave : fut[s] \in {"pending", "running"}
    /\ pc' = "exit_pool"
    /\ exc' = "TimeoutError"
    /\ UNCHANGED <<dag, completed, failed, remaining, wave, fut, collected,
                   steps_executed, dispatchCount, waves, diag,
                   response, toolLog>>
    /\ UNCHANGED <<llmVars, runVars, jsonVars, v1Vars>>

\* variant of AllCollected: the loop over the futures ends at the first one
AllCollectedMut(c, w) == c # {}

\* the loop "for future in as_completed(future_to_step)" has yielded every
\* future of the wave
AllCollected(c, w) == c = w

\* variant of RemainingAfterWave: the wave is not taken out of remaining
RemainingAfterWaveMut(rem, ready) == rem

\* "remaining -= ready"
RemainingAfterWave(rem, ready) == rem \ ready

\* every future of the wave was yielded: leave the pool, "remaining -= ready"
WaveEnd ==
    /\ pc = "wave"
    /\ AllCollected(collected, wave)
    /\ remaining' = RemainingAfterWave(remaining, wave)
    /\ pc' = "while"
    /\ UNCHANGED <<dag, completed, failed, wave, fut, collected,
                   steps_executed, dispatchCount, waves, diag, exc,
                   response, toolLog>>
    /\ UNCHANGED <<llmVars, runVars, jsonVars, v1Vars>>

\* the exception leaves the "with ThreadPoolExecutor" block, whose exit waits
\* for every submitted step, and then leaves execute()
ExitPool ==
    /\ pc = "exit_pool"
    /\ \A s \in wave : fut[s] \in {"success", "failed", "raised"}
    /\ pc' = "raised"
    /\ UNCHANGED <<dag, completed, failed, remaining, wave, fut, collected,
                   steps_executed, dispatchCount, waves, diag, exc,
                   response, toolLog>>
    /\ UNCHANGED <<llmVars, runVars, jsonVars, v1Vars>>

\* ========================================================================
\* call_llm
\* ========================================================================

\* retry_if_exception_type((ConnectionError, TimeoutError, OSError)) and the
\* manual loop's "except (ConnectionError, TimeoutError, OSError)"
Transient == {"ConnectionError", "TimeoutError", "OSError"}

\* variant of Retryable: a reply that does not parse is retried as well
RetryableParseMut(err) == err \in Transient \cup {"JSONDecodeError"}

\* variant of Retryable: every error of the backend is retried
RetryableOtherMut(err) == err \in Transient \cup {"ResponseError"}

\* the errors after which the call is made again: those of the retried types;
\* _call_with_retry re-raises JSONDecodeError and lets any other error through
Retryable(err) == err \in Transient

\* what one backend call can do: a reply that holds a parseable object, a
\* reply that holds none, a transient error, or any other error
BackendOutcomes == {"ok", "malformed"} \cup Transient \cup {"ResponseError"}

RECURSIVE Pow2(_)
Pow2(n) == IF n = 0 THEN 1 ELSE 2 * Pow2(n - 1)

Min(a, b) == IF a <= b THEN a ELSE b
Max(a, b) == IF a >= b THEN a ELSE b

\* tenacity wait_exponential(multiplier=1, min=2, max=10) after attempt n
TenacityWait(n) == Max(2, Min(Pow2(n - 1), 10))

\* manual loop: wait_time = min(10, 2 ** attempt), attempt counted from 0
ManualWait(a) == Min(10, Pow2(a))

\* variant of StopAfterAttempt: one attempt more than asked
StopAfterAttemptMut(n, m) == n > m

\* tenacity stop_after_attempt(max_retries), n = attempts made so far
StopAfterAttempt(n, m) == n >= m

\* manual loop: "if attempt < max_retries - 1" sleeps and goes on, a = 0-based
\* index of the attempt that failed
ManualRetries(a, m) == a < m - 1

\* the content _call_with_retry returns for a reply, or the error it raises
CallResult(outcome, wantJson) ==
    IF outcome = "ok" THEN (IF wantJson THEN "json" ELSE "text")
    ELSE IF outcome = "malformed"
         THEN (IF wantJson THEN "JSONDecodeError" ELSE "text")
    ELSE outcome

LLMInit ==
    /\ tenacity \in BOOLEAN
    /\ max_retries \in 0..MaxAttempts
    /\ return_json \in BOOLEAN
    /\ lpc = "call"
    /\ attempt = 0
    /\ callLog = <<>>
    /\ sleeps = <<>>
    /\ lresult = "none"

LLMIdle ==
    /\ tenacity = FALSE
    /\ max_retries = 0
    /\ return_json = FALSE
    /\ lpc = "off"
    /\ attempt = 0
    /\ callLog = <<>>
    /\ sleeps = <<>>
    /\ lresult = "none"

\* the backend call returns content (and extract_json, when asked, parses it)
CallReturns ==
    /\ lpc = "call"
    /\ \E outcome \in {"ok", "malformed"} :
         /\ CallResult(outcome, return_json) \in {"text", "json"}
         /\ callLog' = Append(callLog, outcome)
         /\ lresult' = CallResult(outcome, return_json)
    /\ attempt' = attempt + 1
    /\ lpc' = "done"
    /\ UNCHANGED <<tenacity, max_retries, return_json, sleeps>>
    /\ UNCHANGED <<execVars, runVars, jsonVars, v1Vars>>

\* the call raises an error that is not of the retried types: it propagates
CallRaisesOther ==
    /\ lpc = "call"
    /\ \E outcome \in BackendOutcomes :
         /\ CallResult(outcome, return_json) \notin {"text", "json"}
         /\ ~Retryable(CallResult(outcome, return_json))
         /\ callLog' = Append(callLog, outcome)
         /\ lresult' = CallResult(outcome, return_json)
    /\ attempt' = attempt + 1
    /\ lpc' = "done"
    /\ UNCHANGED <<tenacity, max_retries, return_json, sleeps>>
    /\ UNCHANGED <<execVars, runVars, jsonVars, v1Vars>>

\* tenacity build: a transient error, backoff sleep, next attempt
TenacityRetry ==
    /\ lpc = "call"
    /\ tenacity
    /\ ~StopAfterAttempt(attempt + 1, max_retries)
    /\ \E outcome \in BackendOutcomes :
         /\ Retryable(CallResult(outcome, return_json))
         /\ callLog' = Append(callLog, outcome)
    /\ attempt' = attempt + 1
    /\ sleeps' = Append(sleeps, TenacityWait(attempt + 1))
    /\ UNCHANGED <<tenacity, max_retries, return_json, lpc, lresult>>
    /\ UNCHANGED <<execVars, runVars, jsonVars, v1Vars>>

\* tenacity build: a transient error on the last attempt is re-raised
TenacityGiveUp ==
    /\ lpc = "call"
    /\ tenacity
    /\ StopAfterAttempt(attempt + 1, max_retries)
    /\ \E outcome \in BackendOutcomes :
         /\ Retryable(CallResult(outcome, return_json))
         /\ callLog' = Append(callLog, outcome)
         /\ lresult' = CallResult(outcome, return_json)
    /\ attempt' = attempt + 1
    /\ lpc' = "done"
    /\ UNCHANGED <<tenacity, max_retries, return_json, sleeps>>
    /\ UNCHANGED <<execVars, runVars, jsonVars, v1Vars>>

\* build without tenacity: a transient error inside the for loop, sleep, go on
ManualRetry ==
    /\ lpc = "call"
    /\ ~tenacity
    /\ attempt < max_retries
    /\ ManualRetries(attempt, max_retries)
    /\ \E outcome \in BackendOutcomes :
         /\ Retryable(CallResult(outcome, return_json))
         /\ callLog' = Append(callLog, outcome)
    /\ attempt' = attempt + 1
    /\ sleeps' = Append(sleeps, ManualWait(attempt))
    /\ UNCHANGED <<tenacity, max_retries, return_json, lpc, lresult>>
    /\ UNCHANGED <<execVars, runVars, jsonVars, v1Vars>>

\* build without tenacity: a transient error on the last attempt of the loop
\* raises ConnectionError; with an empty loop (max_retries = 0) the call after
\* the loop lets the error through as it is
ManualGiveUp ==
    /\ lpc = "call"
    /\ ~tenacity
    /\ \/ attempt >= max_retries
       \/ ~ManualRetries(attempt, max_retries)
    /\ \E outcome \in BackendOutcomes :
         /\ Retryable(CallResult(outcome, return_json))
         /\ callLog' = Append(callLog, outcome)
         /\ lresult' = IF attempt < max_retries THEN "ConnectionError"
                       ELSE CallResult(outcome, return_json)
    /\ attempt' = attempt + 1
    /\ lpc' = "done"
    /\ UNCHANGED <<tenacity, max_retries, return_json, sleeps>>
    /\ UNCHANGED <<execVars, runVars, jsonVars, v1Vars>>

\* ========================================================================
\* AgentRunner.run
\* ========================================================================

\* ReviewerAgent.review: status string of the reply -> ReviewStatus
ReviewReplies == {"approved", "needs_revision", "needs_refinement", "failed"}

ReviewStatusOf(reply) ==
    IF reply = "approved" THEN "APPROVED"
    ELSE IF reply = "needs_revision" THEN "NEEDS_REFINEMENT"
    ELSE "FAILED"

\* variant of Feasible: the feasibility flag is not looked at
FeasibleMut(p) == TRUE

\* "if not plan.feasible" does not hold
Feasible(p) == p.feasible

\* variant of IsApproved: a needs_refinement verdict is taken as approval
IsApprovedMut(status) == status \in {"APPROVED", "NEEDS_REFINEMENT"}

\* "if review.status == ReviewStatus.APPROVED"
IsApproved(status) == status = "APPROVED"

\* variant of RefineAgain: refinement stops one iteration early
RefineAgainMut(flag, a, m) == flag /\ a < m - 2

\* "if ENABLE_REFINEMENT_LOOP and attempt < MAX_RETRIES - 1"
RefineAgain(flag, a, m) == flag /\ a < m - 1

\* variant of AttemptsLeft: one more iteration is started
AttemptsLeftMut(a, m) == a < m

\* "if attempt < MAX_RETRIES - 1" of the FAILED branch and of the handler
AttemptsLeft(a, m) == a < m - 1

\* planner.plan(goal, memory_context=memory_context): the prompt is built
\* from the goal and the memory context
PlannerInputs == {"goal", "memory_context"}

PlannerCall(reason) == [after |-> reason, inputs |-> PlannerInputs]

NoPlan == [present |-> FALSE, feasible |-> FALSE]
NoExecResult == [present |-> FALSE, overall_success |-> FALSE]
NoRunResult == [returned |-> FALSE, success |-> FALSE, kind |-> "none",
                keys |-> {}, error |-> "none", iteration_count |-> 0]

\* variant of ErrorText: the handler returns a fixed text, not the message
ErrorTextMut(kind) ==
    CASE kind = "infeasible"    -> "plan.overall_strategy"
      [] kind = "refinement"    -> "review.recommendation"
      [] kind = "unrecoverable" -> "review.recommendation"
      [] kind = "limit"         -> "MAX_RETRIES"
      [] OTHER                  -> "none"

\* what the "error" entry of each returned dictionary is built from
ErrorText(kind) ==
    CASE kind = "infeasible"    -> "plan.overall_strategy"
      [] kind = "refinement"    -> "review.recommendation"
      [] kind = "unrecoverable" -> "review.recommendation"
      [] kind = "exception"     -> "str(e)"
      [] kind = "limit"         -> "MAX_RETRIES"
      [] OTHER                  -> "none"

RunReturn(success, kind, keys) ==
    [returned |-> TRUE, success |-> success, kind |-> kind, keys |-> keys,
     error |-> ErrorText(kind),
     iteration_count |-> context.iteration_count]

RunInit ==
    /\ MAX_RETRIES \in 0..MaxIter
    /\ ENABLE_REFINEMENT_LOOP \in BOOLEAN
    /\ AUTO_COMMIT \in BOOLEAN
    /\ rpc = "loop"
    /\ rattempt = 0
    /\ plan = NoPlan
    /\ execResult = NoExecResult
    /\ context = [iteration_count |-> 1, errors_recovered |-> 0]
    /\ calls = [planner |-> 0, executor |-> 0, reviewer |-> 0, save |-> 0,
                commit |-> 0]
    /\ verdictLog = <<>>
    /\ excCount = 0
    /\ runResult = NoRunResult
    /\ replyLog = <<>>
    /\ plannerArgs = <<>>
    /\ loopReason = "first"

RunIdle ==
    /\ MAX_RETRIES = 0
    /\ ENABLE_REFINEMENT_LOOP = FALSE
    /\ AUTO_COMMIT = FALSE
    /\ rpc = "off"
    /\ rattempt = 0
    /\ plan = NoPlan
    /\ execResult = NoExecResult
    /\ context = [iteration_count |-> 1, errors_recovered |-> 0]
    /\ calls = [planner |-> 0, executor |-> 0, reviewer |-> 0, save |-> 0,
                commit |-> 0]
    /\ verdictLog = <<>>
    /\ excCount = 0
    /\ runResult = NoRunResult
    /\ replyLog = <<>>
    /\ plannerArgs = <<>>
    /\ loopReason = "first"

runConfig == <<MAX_RETRIES, ENABLE_REFINEMENT_LOOP, AUTO_COMMIT>>

\* "except Exception as e" at the loop boundary
HandleException ==
    /\ excCount' = excCount + 1
    /\ IF AttemptsLeft(rattempt, MAX_RETRIES)
       THEN /\ rattempt' = rattempt + 1
            /\ rpc' = "loop"
            /\ loopReason' = "exception"
            /\ UNCHANGED runResult
       ELSE /\ rpc' = "returned"
            /\ runResult' = RunReturn(FALSE, "exception",
                                      {"success", "error", "context"})
            /\ UNCHANGED <<rattempt, loopReason>>

\* range(MAX_RETRIES) is exhausted: the return after the loop
LoopExhausted ==
    /\ rpc = "loop"
    /\ rattempt >= MAX_RETRIES
    /\ rpc' = "returned"
    /\ runResult' = RunReturn(FALSE, "limit", {"success", "error", "context"})
    /\ UNCHANGED <<runConfig, rattempt, plan, execResult, context, calls,
                   verdictLog, excCount>>
    /\ UNCHANGED <<replyLog, plannerArgs, loopReason>>
    /\ UNCHANGED <<execVars, llmVars, jsonVars, v1Vars>>

\* phases 1-2: the planner raises
PlanRaises ==
    /\ rpc = "loop"
    /\ rattempt < MAX_RETRIES
    /\ calls' = [calls EXCEPT !.planner = @ + 1]
    /\ plannerArgs' = Append(plannerArgs, PlannerCall(loopReason))
    /\ HandleException
    /\ UNCHANGED <<runConfig, plan, execResult, context, verdictLog>>
    /\ UNCHANGED <<replyLog>>
    /\ UNCHANGED <<execVars, llmVars, jsonVars, v1Vars>>

\* phases 1-2: the planner returns a plan that is not feasible
PlanInfeasible ==
    /\ rpc = "loop"
    /\ rattempt < MAX_RETRIES
    /\ calls' = [calls EXCEPT !.planner = @ + 1]
    /\ plannerArgs' = Append(plannerArgs, PlannerCall(loopReason))
    /\ plan' = [present |-> TRUE, feasible |-> FALSE]
    /\ IF Feasible(plan')
       THEN rpc' = "execute" /\ UNCHANGED runResult
       ELSE /\ rpc' = "returned"
            /\ runResult' = RunReturn(FALSE, "infeasible",
                                      {"success", "error", "context"})
    /\ UNCHANGED <<runConfig, rattempt, execResult, context, verdictLog,
                   excCount>>
    /\ UNCHANGED <<replyLog, loopReason>>
    /\ UNCHANGED <<execVars, llmVars, jsonVars, v1Vars>>

\* phases 1-2: the planner returns a feasible plan
PlanFeasible ==
    /\ rpc = "loop"
    /\ rattempt < MAX_RETRIES
    /\ calls' = [calls EXCEPT !.planner = @ + 1]
    /\ plannerArgs' = Append(plannerArgs, PlannerCall(loopReason))
    /\ plan' = [present |-> TRUE, feasible |-> TRUE]
    /\ rpc' = "execute"
    /\ UNCHANGED <<runConfig, rattempt, execResult, context, verdictLog,
                   excCount, runResult>>
    /\ UNCHANGED <<replyLog, loopReason>>
    /\ UNCHANGED <<execVars, llmVars, jsonVars, v1Vars>>

\* phase 3: self.executor.execute(plan.steps)
RunExecute ==
    /\ rpc = "execute"
    /\ calls' = [calls EXCEPT !.executor = @ + 1]
    /\ \E ok \in BOOLEAN :
         execResult' = [present |-> TRUE, overall_success |-> ok]
    /\ rpc' = "review"
    /\ UNCHANGED <<runConfig, rattempt, plan, context, verdictLog, excCount,
                   runResult>>
    /\ UNCHANGED <<replyLog, plannerArgs, loopReason>>
    /\ UNCHANGED <<execVars, llmVars, jsonVars, v1Vars>>

\* phase 3: self.executor.execute(plan.steps) raises
ExecuteRaises ==
    /\ rpc = "execute"
    /\ calls' = [calls EXCEPT !.executor = @ + 1]
    /\ HandleException
    /\ UNCHANGED <<runConfig, plan, execResult, context, verdictLog>>
    /\ UNCHANGED <<replyLog, plannerArgs>>
    /\ UNCHANGED <<execVars, llmVars, jsonVars, v1Vars>>

\* phase 4: the reviewer raises
ReviewRaises ==
    /\ rpc = "review"
    /\ calls' = [calls EXCEPT !.reviewer = @ + 1]
    /\ HandleException
    /\ UNCHANGED <<runConfig, plan, execResult, context, verdictLog>>
    /\ UNCHANGED <<replyLog, plannerArgs>>
    /\ UNCHANGED <<execVars, llmVars, jsonVars, v1Vars>>

\* phases 4-5: approved -> save to memory, auto-commit, return success
ReviewApproved ==
    /\ rpc = "review"
    /\ \E reply \in ReviewReplies :
         /\ IsApproved(ReviewStatusOf(reply))
         /\ verdictLog' = Append(verdictLog, ReviewStatusOf(reply))
         /\ replyLog' = Append(replyLog, reply)
    /\ calls' = [calls EXCEPT !.reviewer = @ + 1,
                              !.save = @ + 1,
                              !.commit = IF AUTO_COMMIT THEN @ + 1 ELSE @]
    /\ rpc' = "returned"
    /\ runResult' = RunReturn(TRUE, "approved",
                              {"success", "goal", "result", "review", "context"})
    /\ UNCHANGED <<runConfig, rattempt, plan, execResult, context, excCount>>
    /\ UNCHANGED <<plannerArgs, loopReason>>
    /\ UNCHANGED <<execVars, llmVars, jsonVars, v1Vars>>

\* phases 4-5: needs_refinement -> next iteration, or return the failure
ReviewNeedsRefinement ==
    /\ rpc = "review"
    /\ \E reply \in ReviewReplies :
         /\ ~IsApproved(ReviewStatusOf(reply))
         /\ ReviewStatusOf(reply) = "NEEDS_REFINEMENT"
         /\ verdictLog' = Append(verdictLog, ReviewStatusOf(reply))
         /\ replyLog' = Append(replyLog, reply)
    /\ calls' = [calls EXCEPT !.reviewer = @ + 1]
    /\ IF RefineAgain(ENABLE_REFINEMENT_LOOP, rattempt, MAX_RETRIES)
       THEN /\ context' = [context EXCEPT !.iteration_count = @ + 1]
            /\ rattempt' = rattempt + 1
            /\ rpc' = "loop"
            /\ loopReason' = "refinement"
            /\ UNCHANGED runResult
       ELSE /\ rpc' = "returned"
            /\ runResult' = RunReturn(FALSE, "refinement",
                                      {"success", "error", "review", "context"})
            /\ UNCHANGED <<context, rattempt, loopReason>>
    /\ UNCHANGED <<runConfig, plan, execResult, excCount>>
    /\ UNCHANGED <<plannerArgs>>
    /\ UNCHANGED <<execVars, llmVars, jsonVars, v1Vars>>

\* phases 4-5: failed -> recovery iteration, or return the failure
ReviewFailed ==
    /\ rpc = "review"
    /\ \E reply \in ReviewReplies :
         /\ ~IsApproved(ReviewStatusOf(reply))
         /\ ReviewStatusOf(reply) = "FAILED"
         /\ verdictLog' = Append(verdictLog, ReviewStatusOf(reply))
         /\ replyLog' = Append(replyLog, reply)
    /\ calls' = [calls EXCEPT !.reviewer = @ + 1]
    /\ IF AttemptsLeft(rattempt, MAX_RETRIES)
       THEN /\ context' = [context EXCEPT !.iteration_count = @ + 1,
                                          !.errors_recovered = @ + 1]
            /\ rattempt' = rattempt + 1
            /\ rpc' = "loop"
            /\ loopReason' = "recovery"
            /\ UNCHANGED runResult
       ELSE /\ rpc' = "returned"
            /\ runResult' = RunReturn(FALSE, "unrecoverable",
                                      {"success", "error", "issues", "context"})
            /\ UNCHANGED <<context, rattempt, loopReason>>
    /\ UNCHANGED <<runConfig, plan, execResult, excCount>>
    /\ UNCHANGED <<plannerArgs>>
    /\ UNCHANGED <<execVars, llmVars, jsonVars, v1Vars>>

\* ========================================================================
\* extract_json
\* ========================================================================

\* A text is a sequence of tokens: "J" is the fence with its tag (```json),
\* "B" a fence without that tag (```), "{" and "}" the braces, "k" a key
\* with its colon ("a":) and "1" a scalar. White space is left out: strip()
\* and json.loads both skip it.
Alphabet == {"J", "B", "{", "}", "k", "1"}

Texts == UNION {[1..n -> Alphabet] : n \in 0..MaxLen}

Chars(s) == {s[i] : i \in DOMAIN s}

\* str.find for a set of tokens: the first position holding one of them, 0
\* when there is none
Find(s, toks) ==
    IF \E i \in DOMAIN s : s[i] \in toks
    THEN CHOOSE i \in DOMAIN s :
             /\ s[i] \in toks
             /\ \A j \in 1..(i - 1) : s[j] \notin toks
    ELSE 0

\* str.split: the pieces of s between the tokens of toks
RECURSIVE Split(_, _)
Split(s, toks) ==
    IF Find(s, toks) = 0 THEN <<s>>
    ELSE <<SubSeq(s, 1, Find(s, toks) - 1)>>
             \o Split(SubSeq(s, Find(s, toks) + 1, Len(s)), toks)

JSONDecodeError == [raised |-> TRUE, value |-> [type |-> "none", members |-> <<>>]]
Returned(v) == [raised |-> FALSE, value |-> v]

NoParse == [ok |-> FALSE, val |-> [type |-> "none", members |-> <<>>], next |-> 0]

\* the JSON value that starts at position i of s, and the position after it:
\* value ::= 1 | {} | { "a": value }
RECURSIVE ParseValue(_, _)
ParseValue(s, i) ==
    IF i > Len(s) THEN NoParse
    ELSE IF s[i] = "1"
         THEN [ok |-> TRUE, val |-> [type |-> "number", members |-> <<>>],
               next |-> i + 1]
    ELSE IF s[i] = "{" /\ i + 1 <= Len(s) /\ s[i + 1] = "}"
         THEN [ok |-> TRUE, val |-> [type |-> "object", members |-> <<>>],
               next |-> i + 2]
    ELSE IF s[i] = "{" /\ i + 1 <= Len(s) /\ s[i + 1] = "k"
         THEN LET m == ParseValue(s, i + 2)
              IN IF m.ok /\ m.next <= Len(s) /\ s[m.next] = "}"
                 THEN [ok |-> TRUE,
                       val |-> [type |-> "object", members |-> <<m.val>>],
                       next |-> m.next + 1]
                 ELSE NoParse
    ELSE NoParse

\* json.loads: the value when the whole of s is one JSON value
json_loads(s) ==
    LET r == ParseValue(s, 1)
    IN IF r.ok /\ r.next = Len(s) + 1 THEN Returned(r.val) ELSE JSONDecodeError

\* variant of FencedInterior: the closing fence is not looked for
FencedInteriorMut(s) == Split(s, {"J"})[2]

\* text.split("```json")[1].split("```")[0]; a "```json" is a "```" as well
FencedInterior(s) == Split(Split(s, {"J"})[2], {"J", "B"})[1]

\* variant of ClosingBrace: the scan stops at the first "}"
RECURSIVE ClosingBraceMut(_, _, _)
ClosingBraceMut(s, i, depth) ==
    IF i > Len(s) THEN 0
    ELSE IF s[i] = "}" THEN i
    ELSE ClosingBraceMut(s, i + 1, depth)

\* the loop "for i in range(start, len(text))": the position where depth
\* comes back to 0, or 0 when the loop ends without reaching it
RECURSIVE ClosingBrace(_, _, _)
ClosingBrace(s, i, depth) ==
    IF i > Len(s) THEN 0
    ELSE IF s[i] = "{" THEN ClosingBrace(s, i + 1, depth + 1)
    ELSE IF s[i] = "}"
         THEN (IF depth - 1 = 0 THEN i ELSE ClosingBrace(s, i + 1, depth - 1))
    ELSE ClosingBrace(s, i + 1, depth)

extract_json(s) ==
    IF "J" \in Chars(s) THEN json_loads(FencedInterior(s))
    ELSE IF "{" \in Chars(s) /\ ClosingBrace(s, Find(s, {"{"}), 0) # 0
         THEN json_loads(SubSeq(s, Find(s, {"{"}),
                                ClosingBrace(s, Find(s, {"{"}), 0)))
    ELSE JSONDecodeError

NoJResult == [raised |-> FALSE, value |-> [type |-> "none", members |-> <<>>]]

JSONInit ==
    /\ text \in Texts
    /\ jpc = "call"
    /\ jresult = NoJResult

JSONIdle ==
    /\ text = <<>>
    /\ jpc = "off"
    /\ jresult = NoJResult

\* extract_json returns the parsed value
ExtractReturns ==
    /\ jpc = "call"
    /\ ~extract_json(text).raised
    /\ jresult' = extract_json(text)
    /\ jpc' = "done"
    /\ UNCHANGED text
    /\ UNCHANGED <<execVars, llmVars, runVars, v1Vars>>

\* extract_json raises json.JSONDecodeError
ExtractRaises ==
    /\ jpc = "call"
    /\ extract_json(text).raised
    /\ jresult' = extract_json(text)
    /\ jpc' = "done"
    /\ UNCHANGED text
    /\ UNCHANGED <<execVars, llmVars, runVars, v1Vars>>

\* ========================================================================
\* run(goal) and ExecutorAgent.execute, the executor AgentRunner is built with
\* ========================================================================

\* the threads that call run(goal)
Callers == {1, 2}

\* plans whose dependencies name earlier steps of the plan
OrderedPlans ==
    {p \in Plans : p # <<>> /\ \A s \in DOMAIN p : \A d \in p[s] : d < s}

NoStepResponse == [step_number |-> 0, success |-> FALSE, invocation |-> 0]

\* ExecutorAgent._execute_step: a SUCCESS response when _call_tool returns,
\* otherwise a FAILED response that carries a ToolCall and is therefore valid;
\* "invocation" records which call of execute built the object
StepResponseV1(number, r, c) ==
    [step_number |-> number, success |-> (r.error = "none"), invocation |-> c]

AllSucceeded(list) == \A i \in DOMAIN list : list[i].success

NoResponseV1 == [returned |-> FALSE, steps_completed |-> <<>>,
                 overall_success |-> FALSE, stopped_at_step |-> 0]

\* ExecutorAgent.execute, "Construir resposta final", from self.steps_executed
BuildResponseV1(list) ==
    [returned |-> TRUE,
     steps_completed |-> list,
     overall_success |-> AllSucceeded(list),
     stopped_at_step |-> IF AllSucceeded(list) THEN 0
                         ELSE list[Len(list)].step_number]

\* "if not step_response.success: break"
BreakOnFailure(r) == ~r.success

V1Init ==
    /\ active \in {{1}, Callers}
    /\ runner = 0
    /\ inst = [c \in Callers |-> 0]
    /\ plan_steps \in OrderedPlans
    /\ vpc = [c \in Callers |-> IF c \in active THEN "entry" ELSE "off"]
    /\ idx = [c \in Callers |-> 0]
    /\ step_response = [c \in Callers |-> NoStepResponse]
    /\ executor_steps_executed = [i \in Callers |-> <<>>]
    /\ own = [c \in Callers |-> <<>>]
    /\ executor_response = [c \in Callers |-> NoResponseV1]

V1Idle ==
    /\ active = {}
    /\ runner = 0
    /\ inst = [c \in Callers |-> 0]
    /\ plan_steps = <<>>
    /\ vpc = [c \in Callers |-> "off"]
    /\ idx = [c \in Callers |-> 0]
    /\ step_response = [c \in Callers |-> NoStepResponse]
    /\ executor_steps_executed = [i \in Callers |-> <<>>]
    /\ own = [c \in Callers |-> <<>>]
    /\ executor_response = [c \in Callers |-> NoResponseV1]

\* run(goal): "global _runner; if not _runner:"
RunEntry(c) ==
    /\ vpc[c] = "entry"
    /\ vpc' = [vpc EXCEPT ![c] = IF runner = 0 THEN "create" ELSE "enter"]
    /\ UNCHANGED <<active, runner, inst, plan_steps, idx, step_response,
                   executor_steps_executed, own, executor_response>>
    /\ UNCHANGED <<execVars, llmVars, runVars, jsonVars>>

\* run(goal): "_runner = AgentRunner()"; __init__ builds self.executor =
\* ExecutorAgent(), whose steps_executed starts empty
RunnerCreate(c) ==
    /\ vpc[c] = "create"
    /\ runner' = c
    /\ executor_steps_executed' = [executor_steps_executed EXCEPT ![c] = <<>>]
    /\ vpc' = [vpc EXCEPT ![c] = "enter"]
    /\ UNCHANGED <<active, inst, plan_steps, idx, step_response, own,
                   executor_response>>
    /\ UNCHANGED <<execVars, llmVars, runVars, jsonVars>>

\* run(goal): "return _runner.run(goal)" reads the global and enters
\* AgentRunner.run, which plans and reaches PHASE 3 with plan.steps
RunnerRun(c) ==
    /\ vpc[c] = "enter"
    /\ inst' = [inst EXCEPT ![c] = runner]
    /\ vpc' = [vpc EXCEPT ![c] = "execute"]
    /\ UNCHANGED <<active, runner, plan_steps, idx, step_response,
                   executor_steps_executed, own, executor_response>>
    /\ UNCHANGED <<execVars, llmVars, runVars, jsonVars>>

\* ExecutorAgent.execute: "self.steps_executed = []", then the for loop starts
ExecuteV1(c) ==
    /\ vpc[c] = "execute"
    /\ executor_steps_executed' =
           [executor_steps_executed EXCEPT ![inst[c]] = <<>>]
    /\ idx' = [idx EXCEPT ![c] = 1]
    /\ vpc' = [vpc EXCEPT ![c] = "step"]
    /\ UNCHANGED <<active, runner, inst, plan_steps, step_response, own,
                   executor_response>>
    /\ UNCHANGED <<execVars, llmVars, runVars, jsonVars>>

\* "step_response = self._execute_step(step)"
ExecuteStepV1(c) ==
    /\ vpc[c] = "step"
    /\ \E r \in {CallTool(call, toolOK) : call \in StepCalls, toolOK \in BOOLEAN} :
          /\ step_response' =
                 [step_response EXCEPT ![c] = StepResponseV1(idx[c], r, c)]
          /\ own' = [own EXCEPT ![c] = Append(@, StepResponseV1(idx[c], r, c))]
    /\ vpc' = [vpc EXCEPT ![c] = "append"]
    /\ UNCHANGED <<active, runner, inst, plan_steps, idx,
                   executor_steps_executed, executor_response>>
    /\ UNCHANGED <<execVars, llmVars, runVars, jsonVars>>

\* "self.steps_executed.append(step_response)", the break on a failed step and
\* the end of the for loop
AppendV1(c) ==
    /\ vpc[c] = "append"
    /\ executor_steps_executed' =
           [executor_steps_executed EXCEPT
                ![inst[c]] = Append(@, step_response[c])]
    /\ IF BreakOnFailure(step_response[c]) \/ idx[c] = Len(plan_steps)
       THEN /\ vpc' = [vpc EXCEPT ![c] = "build"]
            /\ UNCHANGED idx
       ELSE /\ vpc' = [vpc EXCEPT ![c] = "step"]
            /\ idx' = [idx EXCEPT ![c] = @ + 1]
    /\ UNCHANGED <<active, runner, inst, plan_steps, step_response, own,
                   executor_response>>
    /\ UNCHANGED <<execVars, llmVars, runVars, jsonVars>>

\* execute builds its ExecutorResponse from self.steps_executed and returns
\* it; run() stores steps_completed as context.execution_history
ReturnV1(c) ==
    /\ vpc[c] = "build"
    /\ executor_response' =
           [executor_response EXCEPT
                ![c] = BuildResponseV1(executor_steps_executed[inst[c]])]
    /\ vpc' = [vpc EXCEPT ![c] = "done"]
    /\ UNCHANGED <<active, runner, inst, plan_steps, idx, step_response,
                   executor_steps_executed, own>>
    /\ UNCHANGED <<execVars, llmVars, runVars, jsonVars>>

\* ========================================================================
\* Specifications
\* ========================================================================

Init == ExecInit /\ LLMIdle /\ RunIdle /\ JSONIdle /\ V1Idle

Next ==
    \/ Execute
    \/ WhileExit
    \/ DeadlockBreak
    \/ Dispatch
    \/ \E s \in Ids : WorkerStart(s)
    \/ \E s \in Ids : WorkerFinish(s)
    \/ \E s \in Ids : CollectResult(s)
    \/ \E s \in Ids : CollectException(s)
    \/ Timeout
    \/ WaveEnd
    \/ ExitPool

Spec == Init /\ [][Next]_vars

InitPool == PoolInit /\ LLMIdle /\ RunIdle /\ JSONIdle /\ V1Idle

SpecPool == InitPool /\ [][Next]_vars

InitLLM == ExecIdle /\ LLMInit /\ RunIdle /\ JSONIdle /\ V1Idle

NextLLM ==
    \/ CallReturns
    \/ CallRaisesOther
    \/ TenacityRetry
    \/ TenacityGiveUp
    \/ ManualRetry
    \/ ManualGiveUp

SpecLLM == InitLLM /\ [][NextLLM]_vars

InitRun == ExecIdle /\ LLMIdle /\ RunInit /\ JSONIdle /\ V1Idle

NextRun ==
    \/ LoopExhausted
    \/ PlanRaises
    \/ PlanInfeasible
    \/ PlanFeasible
    \/ RunExecute
    \/ ExecuteRaises
    \/ ReviewRaises
    \/ ReviewApproved
    \/ ReviewNeedsRefinement
    \/ ReviewFailed

SpecRun == InitRun /\ [][NextRun]_vars

InitJSON == ExecIdle /\ LLMIdle /\ RunIdle /\ JSONInit /\ V1Idle

NextJSON ==
    \/ ExtractReturns
    \/ ExtractRaises

SpecJSON == InitJSON /\ [][NextJSON]_vars

InitV1 == ExecIdle /\ LLMIdle /\ RunIdle /\ JSONIdle /\ V1Init

NextV1 ==
    \/ \E c \in Callers : RunEntry(c)
    \/ \E c \in Callers : RunnerCreate(c)
    \/ \E c \in Callers : RunnerRun(c)
    \/ \E c \in Callers : ExecuteV1(c)
    \/ \E c \in Callers : ExecuteStepV1(c)
    \/ \E c \in Callers : AppendV1(c)
    \/ \E c \in Callers : ReturnV1(c)

SpecV1 == InitV1 /\ [][NextV1]_vars

\* ========================================================================
\* Properties
\* ========================================================================

Succ(S) == UNION {dag[s] \cap Ids : s \in S}

RECURSIVE ReachFrom(_, _)
ReachFrom(S, n) == IF n = 0 THEN S ELSE ReachFrom(S \cup Succ(S), n - 1)

\* the steps of the plan that s depends on, directly or transitively
TransDeps(s) == ReachFrom(dag[s] \cap Ids, Cardinality(Ids))

Acyclic == \A s \in Ids : s \notin TransDeps(s)
DepsExist == \A s \in Ids : dag[s] \subseteq Ids
DanglingSteps == {s \in Ids : ~(dag[s] \subseteq Ids)}
Terminated == pc \in {"done", "raised"}

\* C1: for an acyclic plan whose dependencies all exist, execute() ends with
\* every step in completed or failed and none left in remaining, whatever
\* steps fail.
C1_AllResolved ==
    (Acyclic /\ DepsExist /\ Terminated /\ exc # "TimeoutError") =>
        /\ pc = "done"
        /\ remaining = {}
        /\ completed \cup failed = Ids

\* C2: when a step has failed, every step that declares it as a direct
\* dependency ends in failed and was never dispatched.
C2_FailFast ==
    (Terminated /\ exc # "TimeoutError") =>
        \A s, t \in Ids :
            (s \in failed /\ s \in dag[t]) =>
                (t \in failed /\ dispatchCount[t] = 0)

\* C3: with a dependency on a step id that is not in the plan the scheduler
\* does not loop: the number of waves never exceeds the number of steps, a
\* pass that finds remaining non-empty and no ready step leaves the loop at
\* once, and the diagnostic names exactly the steps still unresolved, the
\* steps with the missing dependency among them.
C3_DeadlockDetected ==
    /\ [](waves <= Cardinality(Ids))
    /\ []((pc = "done" /\ DanglingSteps # {}) =>
            (diag = remaining /\ DanglingSteps \subseteq diag))
    /\ [][(pc = "while" /\ remaining # {}
             /\ Ready(remaining, completed, failed) = {})
          => (pc' = "done" /\ diag' = remaining' /\ waves' = waves)]_vars

C3_Witness ==
    /\ pc = "done"
    /\ waves >= 1
    /\ DanglingSteps # {}
    /\ diag = DanglingSteps

\* C4: a step that has been dispatched has every declared dependency in
\* completed; none of its dependencies is still pending or running in the
\* pool, still in remaining, or in failed.
C4_DepsResolvedAtDispatch ==
    \A s \in Ids :
        dispatchCount[s] > 0 =>
            /\ dag[s] \subseteq completed
            /\ dag[s] \cap failed = {}
            /\ dag[s] \cap remaining = {}
            /\ \A d \in dag[s] \cap Ids : fut[d] \notin {"pending", "running"}

C4_Witness ==
    \E s \in Ids : fut[s] = "running" /\ dag[s] # {}

\* C9: an exception raised while executing a step becomes a failed result of
\* that step and never leaves execute(): no ValidationError is pending, and a
\* collected step whose execution raised is recorded as FAILED.
C9_ExceptionContained ==
    /\ exc # "ValidationError"
    /\ \A s \in Ids :
           (fut[s] = "raised" /\ s \in collected) => steps_executed[s] = "FAILED"

\* C10: when a step does not finish within the timeout, that step is recorded
\* as failed and execute() goes on and returns normally: the timeout never
\* becomes an exception that leaves the wave.
C10_TimeoutContained == exc # "TimeoutError"

AllTransient(log) == \A i \in DOMAIN log : log[i] \in Transient

\* the backend failed transiently on every call but the last, which succeeded
FailsThenSucceeds ==
    /\ Len(callLog) >= 1
    /\ callLog[Len(callLog)] = "ok"
    /\ \A i \in 1..(Len(callLog) - 1) : callLog[i] \in Transient

\* C5: with max_retries = m >= 1 and a backend that fails transiently k times
\* and then succeeds, call_llm returns the result after k retries (k + 1
\* calls) when k < m, and raises a transient error after exactly m calls
\* when k >= m.
C5_BackoffContract ==
    max_retries >= 1 =>
        /\ (lpc = "done" /\ FailsThenSucceeds) =>
               /\ lresult \in {"text", "json"}
               /\ Len(callLog) <= max_retries
               /\ Len(sleeps) = Len(callLog) - 1
        /\ (AllTransient(callLog) /\ Len(callLog) < max_retries) =>
               /\ lpc = "call"
               /\ Len(sleeps) = Len(callLog)
        /\ (lpc = "done" /\ AllTransient(callLog)) =>
               /\ lresult \in Transient
               /\ Len(callLog) = max_retries

C5_Witness ==
    /\ lpc = "done"
    /\ max_retries = 4
    /\ Len(callLog) = 4
    /\ FailsThenSucceeds
    /\ lresult \in {"text", "json"}

\* every planning iteration so far reached a review, and every review
\* returned needs_refinement
AlwaysNeedsRefinement ==
    /\ Len(verdictLog) >= 1
    /\ Len(verdictLog) = calls.planner
    /\ \A i \in DOMAIN verdictLog : verdictLog[i] = "NEEDS_REFINEMENT"

\* C6 as stated: the planner is invoked at most MAX_RETRIES times, and when
\* every review returns needs_refinement run() plans exactly MAX_RETRIES
\* times and returns success = false.
C6_LoopBound ==
    /\ calls.planner <= MAX_RETRIES
    /\ rattempt < MAX_RETRIES \/ MAX_RETRIES = 0
    /\ (rpc = "returned" /\ AlwaysNeedsRefinement) =>
           (calls.planner = MAX_RETRIES /\ ~runResult.success)

\* C6 amended: the planner is invoked at most MAX_RETRIES times; when every
\* review returns needs_refinement run() returns success = false after
\* exactly MAX_RETRIES planning iterations if ENABLE_REFINEMENT_LOOP is on,
\* and after exactly one if it is off.
C6_LoopBoundAmended ==
    /\ calls.planner <= MAX_RETRIES
    /\ rattempt < MAX_RETRIES \/ MAX_RETRIES = 0
    /\ (rpc = "returned" /\ AlwaysNeedsRefinement) =>
           /\ ~runResult.success
           /\ calls.planner = IF ENABLE_REFINEMENT_LOOP THEN MAX_RETRIES ELSE 1

C6_Witness ==
    /\ rpc = "returned"
    /\ AlwaysNeedsRefinement
    /\ ENABLE_REFINEMENT_LOOP
    /\ MAX_RETRIES = 2
    /\ calls.planner = 2
    /\ ~runResult.success

LastVerdict == IF verdictLog = <<>> THEN "none" ELSE verdictLog[Len(verdictLog)]

\* C7: run() returns success = true exactly when the last review is approved,
\* and then the success record has been saved exactly once by the time the
\* result is returned; in every other run no success record is saved.
C7_SavedOnceOnApproval ==
    /\ (LastVerdict = "APPROVED") <=> (rpc = "returned" /\ runResult.success)
    /\ calls.save = IF LastVerdict = "APPROVED" THEN 1 ELSE 0

C7_Witness ==
    /\ rpc = "returned"
    /\ runResult.success
    /\ execResult.overall_success
    /\ calls.save = 1
    /\ calls.planner = 1

\* C8: once the planner has returned an infeasible plan, run() has returned a
\* failure in that iteration, and the executor and the reviewer are only ever
\* invoked for a feasible plan.
C8_InfeasibleIsTerminal ==
    /\ (plan.present /\ ~plan.feasible) =>
           /\ rpc = "returned"
           /\ ~runResult.success
           /\ runResult.kind = "infeasible"
           /\ calls.executor < calls.planner
           /\ calls.reviewer < calls.planner
    /\ rpc \in {"execute", "review"} => plan.feasible

C8_Witness ==
    /\ plan.present
    /\ ~plan.feasible
    /\ rpc = "returned"
    /\ MAX_RETRIES = 3
    /\ rattempt = 0
    /\ calls.executor = 0

\* ------------------------------------------------------------------------
\* call_llm: what is retried and what is not
\* ------------------------------------------------------------------------

Retried == IF lpc = "call" THEN DOMAIN callLog ELSE 1..(Len(callLog) - 1)

\* C12: only the transient errors (ConnectionError, TimeoutError, OSError) are
\* followed by a backoff sleep and another call; any other error is the
\* outcome of call_llm straight after the call that raised it, with no sleep
\* after that call.
C12_OnlyTransientRetried ==
    /\ \A i \in Retried : CallResult(callLog[i], return_json) \in Transient
    /\ Len(sleeps) = Cardinality(Retried)
    /\ \A i \in DOMAIN callLog :
           CallResult(callLog[i], return_json) \in {"ResponseError", "JSONDecodeError"}
               => /\ i = Len(callLog)
                  /\ lpc = "done"
                  /\ lresult = CallResult(callLog[i], return_json)
                  /\ Len(sleeps) = i - 1

C12_Witness ==
    /\ lpc = "done"
    /\ max_retries = 4
    /\ callLog = <<"ConnectionError", "ResponseError">>
    /\ lresult = "ResponseError"
    /\ Len(sleeps) = 1

\* ------------------------------------------------------------------------
\* AgentRunner.run: exceptions and failure results
\* ------------------------------------------------------------------------

\* C13: an exception raised inside an iteration (planner, executor or
\* reviewer) is caught by run(): when iterations remain the next iteration
\* starts and nothing is returned yet, otherwise run() returns
\* {success: false, error: <the exception message>, context}.
C13_ExceptionCaught ==
    [][excCount' = excCount + 1 =>
          IF rattempt < MAX_RETRIES - 1
          THEN /\ rpc' = "loop"
               /\ rattempt' = rattempt + 1
               /\ ~runResult'.returned
          ELSE /\ rpc' = "returned"
               /\ runResult'.returned
               /\ ~runResult'.success
               /\ runResult'.error = "str(e)"
               /\ runResult'.keys = {"success", "error", "context"}]_vars

C13_Witness ==
    /\ rpc = "returned"
    /\ MAX_RETRIES = 3
    /\ excCount = 3
    /\ calls.planner = 3
    /\ calls.executor >= 1
    /\ calls.reviewer >= 1
    /\ runResult.kind = "exception"

\* the failure results the specification lists
ListedFailure ==
    /\ runResult.returned
    /\ ~runResult.success
    /\ runResult.kind \in {"infeasible", "refinement", "unrecoverable", "exception"}

\* C14 (as the specification states it): every failure result of run()
\* carries a structured issue list (its own or the review's) and a
\* recommendation (the review's, or the one put in the error text), and its
\* error is never the raw exception message.
C14_StructuredFailure ==
    ListedFailure =>
        /\ "issues" \in runResult.keys \/ "review" \in runResult.keys
        /\ "review" \in runResult.keys \/ runResult.error = "review.recommendation"
        /\ runResult.error # "str(e)"

\* C14 (as the code behaves): every failure result of run() carries success,
\* error and context; the issue list comes only with an unrecoverable failed
\* verdict and the review only with an exhausted refinement, both with the
\* reviewer's recommendation in the error text; an infeasible plan gives the
\* plan's strategy text as error; an exception on the last iteration gives
\* the exception message itself as error; these two carry neither issues nor
\* a recommendation.
C14_FailureResultShape ==
    ListedFailure =>
        /\ {"success", "error", "context"} \subseteq runResult.keys
        /\ "issues" \in runResult.keys <=> runResult.kind = "unrecoverable"
        /\ "review" \in runResult.keys <=> runResult.kind = "refinement"
        /\ runResult.error = "review.recommendation"
               <=> runResult.kind \in {"refinement", "unrecoverable"}
        /\ runResult.error = "plan.overall_strategy" <=> runResult.kind = "infeasible"
        /\ runResult.error = "str(e)" <=> runResult.kind = "exception"

C14_Witness ==
    /\ ListedFailure
    /\ MAX_RETRIES = 2
    /\ verdictLog = <<"FAILED">>
    /\ runResult.kind = "exception"
    /\ runResult.error = "str(e)"
    /\ runResult.keys = {"success", "error", "context"}

\* ------------------------------------------------------------------------
\* ExecutorAgentV2: actions outside the registry
\* ------------------------------------------------------------------------

\* C15: a step whose tool/action pair is not in the registry fails with the
\* unknown-action error: no tool function is invoked for it, the result
\* recorded for it is FAILED, and the error stays inside the step: neither
\* _execute_step nor execute() raises because of it.
C15_UnsupportedContained ==
    \A s \in Ids :
        (toolLog[s].called /\ ~toolLog[s].registered) =>
            /\ ~toolLog[s].invoked
            /\ toolLog[s].error = "ValueError: Unknown action"
            /\ fut[s] \in {"running", "failed"}
            /\ s \in collected => steps_executed[s] = "FAILED"

\* ------------------------------------------------------------------------
\* extract_json: the extraction grammar
\* ------------------------------------------------------------------------

\* position of the first fence tagged json, 0 when there is none
FirstFence == IF \E i \in DOMAIN text : text[i] = "J"
              THEN CHOOSE i \in DOMAIN text :
                       text[i] = "J" /\ \A j \in 1..(i - 1) : text[j] # "J"
              ELSE 0

\* position of the fence that closes the first fenced block, or the position
\* after the end of the text when the block is not closed
FenceEnd ==
    IF \E i \in (FirstFence + 1)..Len(text) : text[i] \in {"J", "B"}
    THEN CHOOSE i \in (FirstFence + 1)..Len(text) :
             /\ text[i] \in {"J", "B"}
             /\ \A j \in (FirstFence + 1)..(i - 1) : text[j] \notin {"J", "B"}
    ELSE Len(text) + 1

\* number of tokens tok among text[a..b]
Count(tok, a, b) == Cardinality({i \in a..b : text[i] = tok})

FirstBrace == IF \E i \in DOMAIN text : text[i] = "{"
              THEN CHOOSE i \in DOMAIN text :
                       text[i] = "{" /\ \A j \in 1..(i - 1) : text[j] # "{"
              ELSE 0

\* end positions of the spans that start at the first "{" and are balanced
BalancedEnds ==
    IF FirstBrace = 0 THEN {}
    ELSE {e \in FirstBrace..Len(text) :
              Count("{", FirstBrace, e) = Count("}", FirstBrace, e)}

SpanEnd == CHOOSE e \in BalancedEnds : \A f \in BalancedEnds : e <= f

\* C16: when the text holds a fence tagged json, extract_json gives exactly
\* what parsing the interior of the first fenced block gives: that value
\* whatever brace object stands elsewhere in the text, and the parse error
\* when the interior does not parse.
C16_FencedBlockFirst ==
    (jpc = "done" /\ FirstFence # 0) =>
        jresult = json_loads(SubSeq(text, FirstFence + 1, FenceEnd - 1))

\* a parseable brace object stands before the fence, and the value returned
\* is the one of the fenced interior, which is another value
C16_Witness ==
    /\ jpc = "done"
    /\ FirstFence # 0
    /\ FirstBrace # 0
    /\ FirstBrace < FirstFence
    /\ BalancedEnds # {}
    /\ SpanEnd < FirstFence
    /\ ~json_loads(SubSeq(text, FirstBrace, SpanEnd)).raised
    /\ ~jresult.raised
    /\ jresult # json_loads(SubSeq(text, FirstBrace, SpanEnd))
    /\ FenceEnd <= Len(text)

\* C17: when the text holds no fence tagged json and the first "{" has a
\* matching "}", extract_json gives exactly what parsing the span from the
\* first "{" to its matching "}" gives, whatever stands before and after it.
C17_FirstBalancedSpan ==
    (jpc = "done" /\ FirstFence = 0 /\ BalancedEnds # {}) =>
        jresult = json_loads(SubSeq(text, FirstBrace, SpanEnd))

\* a nested object after some prose is returned whole
C17_Witness ==
    /\ jpc = "done"
    /\ text = <<"k", "{", "k", "{", "}", "}">>
    /\ jresult = Returned([type |-> "object",
                           members |-> <<[type |-> "object", members |-> <<>>]>>])

\* the text yields no parseable object: the fenced interior is not the text
\* of an object, or, without a fence, there is no brace, the first "{" is
\* never closed, or the first balanced span does not parse
NoParseableObject ==
    IF FirstFence # 0
    THEN LET r == json_loads(SubSeq(text, FirstFence + 1, FenceEnd - 1))
         IN r.raised \/ r.value.type # "object"
    ELSE \/ FirstBrace = 0
         \/ BalancedEnds = {}
         \/ json_loads(SubSeq(text, FirstBrace, SpanEnd)).raised

\* C18: whenever the text yields no parseable object, extract_json raises
\* the parse error and returns no value.
C18_RaisesWithoutObject ==
    (jpc = "done" /\ NoParseableObject) => jresult.raised

\* ------------------------------------------------------------------------
\* ExecutorAgentV2: parallelism of a wave and propagation of failures
\* ------------------------------------------------------------------------

\* a plan of three steps without dependencies
ThreeIndependent == Cardinality(Ids) = 3 /\ \A s \in Ids : dag[s] = {}

\* C19: with three mutually independent steps and MAX_WORKERS >= 3 the
\* first scheduling pass submits all three in one wave, and a submitted step
\* can always start at once, whatever the other two are doing: none waits
\* for another to finish. (The duration of the wave is then that of its
\* longest step; durations themselves are not part of the model.)
C19_IndependentRunTogether ==
    (ThreeIndependent /\ MAX_WORKERS >= 3) =>
        /\ waves <= 1
        /\ waves = 1 => wave = Ids /\ \A s \in Ids : dispatchCount[s] = 1
        /\ \A s \in Ids : fut[s] = "pending" => ENABLED WorkerStart(s)

\* the three steps are running at the same time
C19_Witness ==
    /\ ThreeIndependent
    /\ waves = 1
    /\ \A s \in Ids : fut[s] = "running"

\* C20: a failure reaches every step that depends on the failed step directly
\* or through other steps: when execute() ends, each such step is in failed,
\* none is left outside it.
C20_CascadeComplete ==
    (Terminated /\ exc # "TimeoutError") =>
        \A s \in Ids : TransDeps(s) \cap failed # {} => s \in failed

\* ------------------------------------------------------------------------
\* ExecutorAgentV2: the response, the waves and the bookkeeping sets
\* ------------------------------------------------------------------------

\* C21: execute() reports overall_success only when every step of the plan
\* ran and succeeded; a plan with a step that never ran is not a success.
C21_SuccessMeansAllRan ==
    (response.returned /\ response.overall_success) =>
        \A s \in Ids : steps_executed[s] = "SUCCESS"

InFlight == {s \in Ids : fut[s] \in {"pending", "running"}}

\* C23: waves never overlap: only steps of the current wave are in flight,
\* none is in flight when the next ready set is computed, and a wave is
\* dispatched only when every step dispatched before it has finished.
C23_WavesDoNotOverlap ==
    /\ [](InFlight \subseteq wave)
    /\ [](pc = "while" => InFlight = {})
    /\ [][waves' = waves + 1 => InFlight = {}]_vars

\* a second wave is running after the step of the first wave has finished
C23_Witness ==
    /\ waves = 2
    /\ pc = "wave"
    /\ InFlight # {}
    /\ \E t \in Ids \ wave : fut[t] = "success" /\ dispatchCount[t] = 1

\* the three sets split the step ids of the plan
Partition ==
    /\ completed \cap failed = {}
    /\ completed \cap remaining = {}
    /\ failed \cap remaining = {}
    /\ completed \cup failed \cup remaining = Ids

\* C25 (as the specification states it): at every point of an execution
\* completed, failed and remaining are pairwise disjoint and cover the ids.
C25_PartitionAlways ==
    pc # "idle" => Partition

\* C25 (as the code behaves): at every point of an execution completed and
\* failed are disjoint and the three sets cover the ids; each time the loop
\* condition is evaluated and when execute() returns they are pairwise
\* disjoint as well; while a wave is collected, a step of that wave already
\* put in completed or failed is still in remaining until the wave ends.
C25_PartitionBetweenWaves ==
    pc # "idle" =>
        /\ completed \cap failed = {}
        /\ completed \cup failed \cup remaining = Ids
        /\ (completed \cup failed) \cap remaining \subseteq wave
        /\ pc \in {"while", "done"} => Partition

\* a collected step of the running wave is in completed and in remaining
C25_Witness ==
    /\ pc = "wave"
    /\ waves = 2
    /\ \E s \in wave : s \in collected /\ s \in completed /\ s \in remaining

\* C26: within one execute() no step is submitted twice, a step in failed
\* is never run again, and a result once recorded for a step is never
\* replaced.
C26_ExecutedAtMostOnce ==
    /\ [](\A s \in Ids : dispatchCount[s] <= 1)
    /\ [][\A s \in Ids :
            /\ s \in failed => fut'[s] = fut[s]
            /\ (pc # "idle" /\ steps_executed[s] # "absent")
                   => steps_executed'[s] = steps_executed[s]]_vars

\* a chain of three steps ran in three waves, each step submitted once
C26_Witness ==
    /\ pc = "done"
    /\ waves = 3
    /\ Cardinality(Ids) = 3
    /\ \A s \in Ids : dispatchCount[s] = 1 /\ steps_executed[s] = "SUCCESS"

\* C24: never more than MAX_WORKERS steps are executing at the same time;
\* when a wave holds more steps than that, the steps beyond the limit stay
\* submitted until a thread is free and run in that same wave: the wave is
\* not over, and no other wave starts, while one of them has not finished.
C24_PoolBound ==
    /\ Cardinality(Running) <= MAX_WORKERS
    /\ \A s \in Ids : dispatchCount[s] <= 1
    /\ \A s \in Ids : fut[s] = "pending" => (s \in wave /\ pc \in {"wave", "exit_pool"})
    /\ \A s \in Ids :
           (fut[s] = "pending" /\ Cardinality(Running) < MAX_WORKERS)
               => ENABLED WorkerStart(s)

\* a wave of more steps than threads: MAX_WORKERS of them are running, one
\* has finished, and the last one, first kept waiting, is among the running
C24_Witness ==
    /\ Cardinality(wave) > MAX_WORKERS
    /\ waves = 1
    /\ pc = "wave"
    /\ Cardinality(Running) = MAX_WORKERS
    /\ \E s \in wave : fut[s] = "success"
    /\ InFlight = Running

\* ------------------------------------------------------------------------
\* AgentRunner.run: refinement feedback, verdict mapping, iteration count
\* ------------------------------------------------------------------------

\* C27: with the refinement loop enabled, a needs_refinement verdict with
\* iterations left increments the iteration count and starts an iteration
\* whose planning call is given the feedback of that review; with no
\* iteration left run() returns the failure of an exhausted refinement.
C27_RefinementWithFeedback ==
    /\ [](\A i \in DOMAIN plannerArgs :
              plannerArgs[i].after = "refinement"
                  => "review_feedback" \in plannerArgs[i].inputs)
    /\ [][(ENABLE_REFINEMENT_LOOP /\ Len(verdictLog') = Len(verdictLog) + 1
             /\ verdictLog'[Len(verdictLog')] = "NEEDS_REFINEMENT") =>
            IF rattempt < MAX_RETRIES - 1
            THEN /\ context'.iteration_count = context.iteration_count + 1
                 /\ rpc' = "loop"
            ELSE /\ rpc' = "returned"
                 /\ ~runResult'.success
                 /\ runResult'.kind = "refinement"]_vars

\* the status named by a reply, for the three values of ReviewStatus
StatusNamed(reply) ==
    CASE reply = "approved" -> "APPROVED"
      [] reply = "needs_refinement" -> "NEEDS_REFINEMENT"
      [] reply = "failed" -> "FAILED"
      [] OTHER -> "none"

\* C29: the status of every verdict the reviewer returns is the one its
\* reply names: approved gives APPROVED, needs_refinement gives
\* NEEDS_REFINEMENT, failed gives FAILED.
C29_VerdictAsNamed ==
    \A i \in DOMAIN replyLog :
        replyLog[i] \in {"approved", "needs_refinement", "failed"}
            => verdictLog[i] = StatusNamed(replyLog[i])

\* C30: for a valid MAX_RETRIES (at least 1), the iteration_count of the
\* context run() returns is the number of planning iterations performed and
\* is at most MAX_RETRIES, also when iterations were retried after an
\* exception.
C30_IterationCount ==
    (runResult.returned /\ MAX_RETRIES >= 1) =>
        /\ runResult.iteration_count = calls.planner
        /\ runResult.iteration_count <= MAX_RETRIES


\* ------------------------------------------------------------------------
\* C22: in the EXECUTE phase of run() the plan is run to exhaustion: when the
\* executor has returned, every step whose dependencies all succeeded has been
\* executed, also when an unrelated step failed; a step is left unexecuted
\* only if a step it depends on did not succeed (one invocation, so that
\* nothing else touches the executor)
\* ------------------------------------------------------------------------
Executed(c) == {own[c][i].step_number : i \in DOMAIN own[c]}

Succeeded(c) ==
    {own[c][i].step_number : i \in {j \in DOMAIN own[c] : own[c][j].success}}

C22_RunToExhaustion ==
    (active = {1} /\ vpc[1] = "done") =>
        \A s \in DOMAIN plan_steps :
            plan_steps[s] \subseteq Succeeded(1) => s \in Executed(1)

\* ------------------------------------------------------------------------
\* C28: two invocations of run(goal) that execute concurrently share no
\* mutable state: the step results an invocation gets back are the ones it
\* produced itself, and while an invocation is inside execute no step of the
\* other invocation resets or changes the list it records its results in
\* ------------------------------------------------------------------------
InsideExecute(c) == vpc[c] \in {"step", "append", "build"}

C28_NoSharedState ==
    /\ [](\A c \in active :
            vpc[c] = "done" => executor_response[c].steps_completed = own[c])
    /\ [][\A c \in active :
            (InsideExecute(c) /\ vpc'[c] = vpc[c]) =>
                executor_steps_executed'[inst[c]] =
                    executor_steps_executed[inst[c]]]_vars

====
